---- MODULE Spec2Model ----
(***************************************************************************)
(* Model of src/index.js: the TickTick CSV backup to TaskPaper converter.   *)
(*                                                                         *)
(* A JavaScript string is a sequence of one-character strings; the values  *)
(* undefined and null are the one-element sequences Undefined and Null     *)
(* (no string is one, since their element is not a single character).      *)
(* A row object is a function from the keys it owns to strings.            *)
(***************************************************************************)
EXTENDS Integers, Sequences, FiniteSets, TLC

VARIABLES
    pc,          \* position of the run: start, callback, awaiting, copying, done, rejected
    fileExists,  \* whether fs.readFile can read process.argv[2]
    extname,     \* path.extname(file)
    fileRows,    \* the rows the row source parses out of the file's contents
    err,         \* the err argument of the readFile callback
    data,        \* the data argument of the readFile callback
    result,      \* the array convertCsvToJson resolved with (the caller's array)
    dataSet,     \* parseJson's local json after the splice: the rows removed
    sortedRows,  \* the same array after the sort
    projects,    \* the accumulator of the reduce: own properties in insertion order
    results,     \* the text parseJson built
    clipboard,   \* what copy() was given
    console,     \* what console.error / console.log printed, in order
    trace,       \* the operations of the run that were started, in order
    firstResults,\* text of the first of two parseJson calls on one array
    given,       \* the row sequence as it was handed to the first parseJson call
    item,        \* the record handed to the encoders
    frags        \* the fragments the encoders returned for item

vars == <<pc, fileExists, extname, fileRows, err, data, result, dataSet, sortedRows, projects,
          results, clipboard, console, trace, firstResults, given, item, frags>>

fileVars == <<fileExists, extname, fileRows>>
parseVars == <<result, dataSet, sortedRows, projects, results, clipboard>>
twiceVars == <<firstResults, given>>
encVars == <<item, frags>>

----------------------------------------------------------------------------
(* JavaScript values *)

Undefined == <<"undefined">>
Null == <<"null">>

\* UTF-16 code unit order of the characters the model uses.
Charset == <<"\t", "\n", " ", "(", ")", "+", ",", "-", ".", "/", "0", "1", "2", "3", "4", "5", "6", "7", "8", "9", ":", "@", "A", "B", "C", "D", "E", "F", "G", "H", "I", "J", "K", "L", "M", "N", "O", "P", "Q", "R", "S", "T", "U", "V", "W", "X", "Y", "Z", "_", "a", "b", "c", "d", "e", "f", "g", "h", "i", "j", "k", "l", "m", "n", "o", "p", "q", "r", "s", "t", "u", "v", "w", "x", "y", "z", "▪">>

UpperCase == <<"A", "B", "C", "D", "E", "F", "G", "H", "I", "J", "K", "L", "M", "N", "O", "P", "Q", "R", "S", "T", "U", "V", "W", "X", "Y", "Z">>
LowerCase == <<"a", "b", "c", "d", "e", "f", "g", "h", "i", "j", "k", "l", "m", "n", "o", "p", "q", "r", "s", "t", "u", "v", "w", "x", "y", "z">>
Digits == <<"0", "1", "2", "3", "4", "5", "6", "7", "8", "9">>

IndexIn(c, s) == CHOOSE i \in 1..Len(s) : s[i] = c
Has(c, s) == \E i \in 1..Len(s) : s[i] = c
Code(c) == IndexIn(c, Charset)
IsDigit(c) == Has(c, Digits)
DigitVal(c) == IndexIn(c, Digits) - 1
IsWs(c) == c \in {" ", "\n", "\t"}

\* String(value) and template-literal interpolation
String(v) ==
    IF v = Undefined THEN <<"u", "n", "d", "e", "f", "i", "n", "e", "d">>
    ELSE IF v = Null THEN <<"n", "u", "l", "l">>
    ELSE v

\* !!value for undefined, null and strings
Truthy(v) == v # Undefined /\ v # Null /\ v # <<>>

\* String.prototype.trim
Trim(s) ==
    LET kept == {i \in 1..Len(s) : ~IsWs(s[i])} IN
    IF kept = {} THEN <<>>
    ELSE SubSeq(s, CHOOSE i \in kept : \A j \in kept : i <= j,
                   CHOOSE i \in kept : \A j \in kept : j <= i)

toLowerCase(s) ==
    [i \in 1..Len(s) |-> IF Has(s[i], UpperCase) THEN LowerCase[IndexIn(s[i], UpperCase)] ELSE s[i]]

toUpperCase(s) ==
    [i \in 1..Len(s) |-> IF Has(s[i], LowerCase) THEN UpperCase[IndexIn(s[i], LowerCase)] ELSE s[i]]

\* String.prototype.split(sep) for a one-character separator: the pieces
\* between one separator (or the start) and the next (or the end)
Split(s, sep) ==
    LET at == {i \in 1..Len(s) : s[i] = sep}
        cut(k) == IF k = 0 THEN 0
                  ELSE IF k = Cardinality(at) + 1 THEN Len(s) + 1
                  ELSE CHOOSE i \in at : Cardinality({j \in at : j < i}) = k - 1 IN
    [k \in 1..(Cardinality(at) + 1) |-> SubSeq(s, cut(k - 1) + 1, cut(k) - 1)]

\* Array.prototype.join(sep)
RECURSIVE Join(_, _)
Join(parts, sep) ==
    IF parts = <<>> THEN <<>>
    ELSE IF Len(parts) = 1 THEN parts[1]
    ELSE parts[1] \o sep \o Join(Tail(parts), sep)

\* a < b on two strings: by the first code unit that differs, a proper
\* prefix first
StrLt(a, b) ==
    LET common == IF Len(a) < Len(b) THEN Len(a) ELSE Len(b)
        differ == {i \in 1..common : a[i] # b[i]} IN
    IF differ = {} THEN Len(a) < Len(b)
    ELSE LET i == CHOOSE d \in differ : \A e \in differ : d <= e IN
         Code(a[i]) < Code(b[i])

\* a < b where either side may be undefined (then the comparison is with NaN)
JsLt(a, b) == IF a = Undefined \/ b = Undefined THEN FALSE ELSE StrLt(a, b)

RECURSIVE DigitsValue(_, _)
DigitsValue(s, n) == IF s = <<>> THEN n ELSE DigitsValue(Tail(s), 10 * n + DigitVal(Head(s)))

AllDigits(s) == s # <<>> /\ \A i \in 1..Len(s) : IsDigit(s[i])

\* ToNumber of a value, for the decimal integer literals, blank strings and
\* undefined: [nan |-> TRUE] stands for NaN.
ToNumber(v) ==
    LET t == Trim(v)
        body == IF t # <<>> /\ Head(t) \in {"-", "+"} THEN Tail(t) ELSE t
        sign == IF t # <<>> /\ Head(t) = "-" THEN -1 ELSE 1 IN
    IF v = Undefined THEN [nan |-> TRUE, val |-> 0]
    ELSE IF v = Null \/ t = <<>> THEN [nan |-> FALSE, val |-> 0]
    ELSE IF AllDigits(body) THEN [nan |-> FALSE, val |-> sign * DigitsValue(body, 0)]
    ELSE [nan |-> TRUE, val |-> 0]

\* value > 0 and value != 0 (loose), number on the right
GreaterThanZero(v) == ~ToNumber(v).nan /\ ToNumber(v).val > 0
LooseNotEqualZero(v) ==
    IF v = Undefined \/ v = Null THEN TRUE
    ELSE ToNumber(v).nan \/ ToNumber(v).val # 0

\* item.key: the value of an own key, undefined otherwise
Get(obj, key) == IF key \in DOMAIN obj THEN obj[key] ELSE Undefined

----------------------------------------------------------------------------
(* general helpers *)

\* the 21 keys the row source assigns, in column order
folderName == <<"f", "o", "l", "d", "e", "r", "N", "a", "m", "e">>
listName == <<"l", "i", "s", "t", "N", "a", "m", "e">>
title == <<"t", "i", "t", "l", "e">>
tags == <<"t", "a", "g", "s">>
content == <<"c", "o", "n", "t", "e", "n", "t">>
isCheckList == <<"i", "s", "C", "h", "e", "c", "k", "L", "i", "s", "t">>
startDate == <<"s", "t", "a", "r", "t", "D", "a", "t", "e">>
dueDate == <<"d", "u", "e", "D", "a", "t", "e">>
reminder == <<"r", "e", "m", "i", "n", "d", "e", "r">>
repeat == <<"r", "e", "p", "e", "a", "t">>
priority == <<"p", "r", "i", "o", "r", "i", "t", "y">>
status == <<"s", "t", "a", "t", "u", "s">>
createdTime == <<"c", "r", "e", "a", "t", "e", "d", "T", "i", "m", "e">>
completedTime == <<"c", "o", "m", "p", "l", "e", "t", "e", "d", "T", "i", "m", "e">>
order == <<"o", "r", "d", "e", "r">>
timezone == <<"t", "i", "m", "e", "z", "o", "n", "e">>
isAllDay == <<"i", "s", "A", "l", "l", "D", "a", "y">>
isFloating == <<"i", "s", "F", "l", "o", "a", "t", "i", "n", "g">>
columnName == <<"c", "o", "l", "u", "m", "n", "N", "a", "m", "e">>
columnOrder == <<"c", "o", "l", "u", "m", "n", "O", "r", "d", "e", "r">>
viewMode == <<"v", "i", "e", "w", "M", "o", "d", "e">>

headers ==
    <<folderName, listName, title, tags, content, isCheckList, startDate, dueDate,
      reminder, repeat, priority, status, createdTime, completedTime, order, timezone,
      isAllDay, isFloating, columnName, columnOrder, viewMode>>

cleanupStrings(value, fallback) ==
    LET t == Trim(String(value)) IN IF t # <<>> THEN t ELSE fallback

\* DateTime.fromISO(s).isValid for the full timestamps of the export,
\* yyyy-MM-ddTHH:mm:ss.SSS+0000; every other string the model feeds it is
\* not a date at all.
IsValidISO(s) ==
    /\ Len(s) = 28
    /\ \A i \in {1, 2, 3, 4, 6, 7, 9, 10, 12, 13, 15, 16, 18, 19, 21, 22, 23} : IsDigit(s[i])
    /\ s[5] = "-" /\ s[8] = "-" /\ s[11] = "T" /\ s[14] = ":" /\ s[17] = ":" /\ s[20] = "."
    /\ SubSeq(s, 24, 28) = <<"+", "0", "0", "0", "0">>
    /\ DigitsValue(SubSeq(s, 6, 7), 0) \in 1..12
    /\ DigitsValue(SubSeq(s, 9, 10), 0) \in 1..28   \* the days every month has
    /\ DigitsValue(SubSeq(s, 12, 13), 0) \in 0..23
    /\ DigitsValue(SubSeq(s, 15, 16), 0) \in 0..59
    /\ DigitsValue(SubSeq(s, 18, 19), 0) \in 0..59

\* decimal numeral of 1..12
HourText(h) == IF h < 10 THEN <<Digits[h + 1]>> ELSE <<"1", Digits[h - 10 + 1]>>

\* toFormat("MM/dd/yyyy h:mm:ss a") of the instant. The zones of the model
\* (UTC, and the empty or missing zone, for which the source falls back to
\* the local zone, taken to be UTC) have offset zero, so the fields shown are
\* the fields of the UTC instant.
reformatDates(ttDateTime, ttTimezone) ==
    IF ~Truthy(ttDateTime) \/ ~IsValidISO(ttDateTime) THEN Null
    ELSE LET s == ttDateTime
             hour == DigitsValue(SubSeq(s, 12, 13), 0) IN
         SubSeq(s, 6, 7) \o <<"/">> \o SubSeq(s, 9, 10) \o <<"/">> \o SubSeq(s, 1, 4)
         \o <<" ">> \o HourText(((hour + 11) % 12) + 1)
         \o <<":">> \o SubSeq(s, 15, 16) \o <<":">> \o SubSeq(s, 18, 19)
         \o <<" ">> \o (IF hour < 12 THEN <<"A", "M">> ELSE <<"P", "M">>)

keyToCamelCase(key) ==
    LET words == Split(toLowerCase(key), " ")
        mapped == [i \in 1..Len(words) |->
                     IF i > 1 /\ words[i] # <<>>
                     THEN toUpperCase(<<words[i][1]>>) \o Tail(words[i])
                     ELSE words[i]] IN
    Join(mapped, <<>>)

----------------------------------------------------------------------------
(* conversion helpers *)

\* tpDone with the strict comparison item.status !== 0, which no string satisfies
tpDoneStrictInequality(it) ==
    LET completionDate == reformatDates(Get(it, completedTime), Get(it, timezone)) IN
    IF Truthy(completionDate)
    THEN <<" ", "@", "d", "o", "n", "e", "(">> \o completionDate \o <<")">>
    ELSE <<>>

tpDone(it) ==
    LET completed == LooseNotEqualZero(Get(it, status))
        completionDate == reformatDates(Get(it, completedTime), Get(it, timezone)) IN
    IF completed /\ Truthy(completionDate)
    THEN <<" ", "@", "d", "o", "n", "e", "(">> \o completionDate \o <<")">>
    ELSE <<>>

tpDefer(it) ==
    LET deferDate == reformatDates(Get(it, createdTime), Get(it, timezone)) IN
    IF Truthy(deferDate) THEN <<" ", "@", "d", "e", "f", "e", "r", "(">> \o deferDate \o <<")">> ELSE <<>>

tpDue(it) ==
    LET due == reformatDates(Get(it, dueDate), Get(it, timezone)) IN
    IF Truthy(due) THEN <<" ", "@", "d", "u", "e", "(">> \o due \o <<")">> ELSE <<>>

tpFlagged(it) == IF GreaterThanZero(Get(it, priority)) THEN <<" ", "@", "f", "l", "a", "g", "g", "e", "d">> ELSE <<>>

\* a single replace of either marker: line.replace(/^[-▪]/, "")
StripOneMarker(line) ==
    IF line # <<>> /\ Head(line) \in {"-", "▪"} THEN Tail(line) ELSE line

\* line.replace(/^-/, "").replace(/^▪/, "")
StripMarkers(line) ==
    LET a == IF line # <<>> /\ Head(line) = "-" THEN Tail(line) ELSE line IN
    IF a # <<>> /\ Head(a) = "▪" THEN Tail(a) ELSE a

tpNote(it) ==
    IF Truthy(Get(it, content))
    THEN LET lines == Split(cleanupStrings(Get(it, content), <<>>), "\n") IN
         Join([i \in 1..Len(lines) |-> StripMarkers(lines[i])], <<"\n">>)
    ELSE <<>>

tpProject(it) ==
    LET folder == IF Truthy(Get(it, folderName))
                  THEN cleanupStrings(Get(it, folderName), <<>>) ELSE <<>>
        list == IF Truthy(Get(it, listName))
                THEN cleanupStrings(Get(it, listName), <<>>) ELSE <<>> IN
    IF Truthy(folder) \/ Truthy(list)
    THEN cleanupStrings(folder \o <<" ">> \o list, <<>>)
    ELSE <<>>

tpRepeat(it) ==
    LET repeatRule == cleanupStrings(Get(it, repeat), Null) IN
    IF Truthy(repeatRule)
    THEN <<" ", "@", "r", "e", "p", "e", "a", "t", "-", "m", "e", "t", "h", "o", "d", "(", "f", "i", "x", "e", "d", ")", " ", "@", "r", "e", "p", "e", "a", "t", "-", "r", "u", "l", "e", "(">> \o repeatRule \o <<")">>
    ELSE <<>>

tpTags(it) ==
    LET tagList == cleanupStrings(Get(it, tags), <<>>)
        prio == IF Truthy(Get(it, priority))
                THEN <<"p", "r", "i", "o", "r", "i", "t", "y", "-">> \o String(Get(it, priority)) ELSE <<>> IN
    IF Truthy(tagList) \/ Truthy(prio)
    THEN <<" ", "@", "t", "a", "g", "s", "(">> \o tagList
         \o (IF Truthy(tagList) /\ Truthy(prio) THEN <<",", " ">> ELSE <<>>)
         \o prio \o <<")">>
    ELSE <<>>

tpTitle(it) == cleanupStrings(Get(it, title), <<>>)

----------------------------------------------------------------------------
(* organization helpers *)

\* cleanupStrings(`${a.folderName} ${a.listName}`)
ProjectSortName(a) ==
    cleanupStrings(String(Get(a, folderName)) \o <<" ">> \o String(Get(a, listName)), <<>>)

sortByProjectAndCreation(a, b) ==
    LET aProjectName == ProjectSortName(a)
        bProjectName == ProjectSortName(b) IN
    IF StrLt(aProjectName, bProjectName) THEN -1
    ELSE IF StrLt(bProjectName, aProjectName) THEN 1
    ELSE IF JsLt(Get(a, createdTime), Get(b, createdTime)) THEN -1
    ELSE IF JsLt(Get(b, createdTime), Get(a, createdTime)) THEN 1
    ELSE 0

\* Array.prototype.sort(sortByProjectAndCreation): the sort is stable, so an
\* element goes in front of the first one that compares greater than it.
RECURSIVE InsertSorted(_, _)
InsertSorted(sorted, e) ==
    IF sorted = <<>> THEN <<e>>
    ELSE IF sortByProjectAndCreation(Head(sorted), e) > 0 THEN <<e>> \o sorted
    ELSE <<Head(sorted)>> \o InsertSorted(Tail(sorted), e)

RECURSIVE Sort(_)
Sort(rows) ==
    IF rows = <<>> THEN <<>>
    ELSE InsertSorted(Sort(SubSeq(rows, 1, Len(rows) - 1)), rows[Len(rows)])

\* indentString(str, 1, "\t"): a tab in front of every line that is not blank
IsBlank(line) == \A i \in 1..Len(line) : IsWs(line[i])

indentString(str) ==
    LET lines == Split(str, "\n") IN
    Join([i \in 1..Len(lines) |->
            IF IsBlank(lines[i]) THEN lines[i] ELSE <<"\t">> \o lines[i]], <<"\n">>)

\* The accumulator {} of the reduce: its own properties as a sequence of
\* [key, value] in insertion order; every other name is looked up on
\* Object.prototype.
ObjectPrototypeKeys ==
    { <<"c", "o", "n", "s", "t", "r", "u", "c", "t", "o", "r">>, <<"t", "o", "S", "t", "r", "i", "n", "g">>, <<"t", "o", "L", "o", "c", "a", "l", "e", "S", "t", "r", "i", "n", "g">>, <<"v", "a", "l", "u", "e", "O", "f">>,
      <<"h", "a", "s", "O", "w", "n", "P", "r", "o", "p", "e", "r", "t", "y">>, <<"i", "s", "P", "r", "o", "t", "o", "t", "y", "p", "e", "O", "f">>, <<"p", "r", "o", "p", "e", "r", "t", "y", "I", "s", "E", "n", "u", "m", "e", "r", "a", "b", "l", "e">>, <<"_", "_", "p", "r", "o", "t", "o", "_", "_">> }

OwnIndex(acc, key) ==
    IF \E i \in 1..Len(acc) : acc[i].key = key
    THEN CHOOSE i \in 1..Len(acc) : acc[i].key = key
    ELSE 0

\* the rendered entry of one task (lines 112-116)
RenderTask(task) ==
    LET dates == <<" ">> \o tpDefer(task) \o tpDue(task) \o tpDone(task)
        meta == <<" ">> \o tpFlagged(task) \o tpRepeat(task) \o tpTags(task)
        note == indentString(tpNote(task))
        each == Trim(<<"\n", "-", " ">> \o tpTitle(task) \o dates \o meta \o <<"\n">> \o note) IN
    indentString(each)

\* One step of the reduce. acc[projectName] of a name found on
\* Object.prototype is truthy, so no bucket is made for it, and it has no
\* push: the call throws a TypeError.
listTasksByProject(acc, task) ==
    LET projectName == Trim(tpProject(task))
        own == OwnIndex(acc, projectName)
        output == RenderTask(task) IN
    IF own > 0
    THEN [thrown |-> FALSE,
          acc |-> [acc EXCEPT ![own].value = Append(@, output)]]
    ELSE IF projectName \in ObjectPrototypeKeys
    THEN [thrown |-> TRUE, acc |-> acc]
    ELSE [thrown |-> FALSE,
          acc |-> Append(acc, [key |-> projectName,
                               value |-> <<<<"\n">> \o projectName \o <<":">>, output>>])]

\* json.reduce(listTasksByProject, {}), which an exception ends
RECURSIVE Reduce(_, _)
Reduce(rows, acc) ==
    IF rows = <<>> THEN [thrown |-> FALSE, acc |-> acc]
    ELSE LET step == listTasksByProject(acc, Head(rows)) IN
         IF step.thrown THEN step ELSE Reduce(Tail(rows), step.acc)

\* A property name that is an array index: a canonical decimal numeral
\* below 2^32 - 1.
IsArrayIndex(key) ==
    /\ AllDigits(key)
    /\ Len(key) = 1 \/ key[1] # "0"
    /\ Len(key) < 10 \/ (Len(key) = 10 /\ StrLt(key, <<"4", "2", "9", "4", "9", "6", "7", "2", "9", "5">>))

IndexLt(a, b) == Len(a) < Len(b) \/ (Len(a) = Len(b) /\ StrLt(a, b))

\* Object.values(projects): the array-index keys in ascending numeric
\* order first, then the other keys in insertion order.
RECURSIVE InsertIndexKey(_, _)
InsertIndexKey(sorted, e) ==
    IF sorted = <<>> THEN <<e>>
    ELSE IF IndexLt(e.key, Head(sorted).key) THEN <<e>> \o sorted
    ELSE <<Head(sorted)>> \o InsertIndexKey(Tail(sorted), e)

RECURSIVE IndexEntries(_)
IndexEntries(acc) ==
    IF acc = <<>> THEN <<>>
    ELSE IF IsArrayIndex(acc[Len(acc)].key)
    THEN InsertIndexKey(IndexEntries(SubSeq(acc, 1, Len(acc) - 1)), acc[Len(acc)])
    ELSE IndexEntries(SubSeq(acc, 1, Len(acc) - 1))

OwnKeysInOrder(acc) ==
    IndexEntries(acc) \o SelectSeq(acc, LAMBDA e : ~IsArrayIndex(e.key))

ObjectValues(acc) == [i \in 1..Len(acc) |-> OwnKeysInOrder(acc)[i].value]

----------------------------------------------------------------------------
(* csv to json conversion *)

\* the callback of findIndex (lines 149-153): every key the row owns
IsHeaderRow(task) == \A key \in DOMAIN task : key = keyToCamelCase(task[key])

\* json.findIndex(...): the 0-based index of the first header row, or -1
headerRowIndex(json) ==
    IF \E i \in 1..Len(json) : IsHeaderRow(json[i])
    THEN (CHOOSE i \in 1..Len(json) :
            IsHeaderRow(json[i]) /\ \A j \in 1..(i - 1) : ~IsHeaderRow(json[j])) - 1
    ELSE -1

\* the value of a step of a computation, named once and used as a value
Only(S) == CHOOSE x \in S : TRUE

\* parseJson(json), lines 148-172, up to the call of copy:
\*   array    the caller's array after json.splice(headerRowIndex + 1)
\*   format   whether reportError("format") was called
\*   dataSet  the removed rows, which json is bound to from line 157 on
\*   sorted   that array after the sort
\*   thrown   whether the reduce threw
parseJson(json) ==
    Only({ Only({ Only({
        LET values == ObjectValues(reduced.acc) IN
        [array |-> SubSeq(json, 1, idx + 1),
         format |-> idx < 0,
         dataSet |-> SubSeq(json, idx + 2, Len(json)),
         sorted |-> sorted,
         thrown |-> reduced.thrown,
         projects |-> reduced.acc,
         results |-> Join([i \in 1..Len(values) |-> Join(values[i], <<"\n", "\n">>)], <<"\n", "\n">>)]
        : reduced \in {Reduce(sorted, <<>>)} })
        : sorted \in {Sort(SubSeq(json, idx + 2, Len(json)))} })
        : idx \in {headerRowIndex(json)} })

----------------------------------------------------------------------------
(* inputs *)

MaxRows == 3

\* The row source (csvtojson with noheader and the 21 headers) gives a line
\* of n cells the first n keys.
Row(cells) ==
    [key \in {headers[i] : i \in 1..Len(cells)} |-> cells[IndexIn(key, headers)]]

\* the first line of a TickTick backup table
HeaderLabels ==
    << <<"F", "o", "l", "d", "e", "r", " ", "N", "a", "m", "e">>, <<"L", "i", "s", "t", " ", "N", "a", "m", "e">>, <<"T", "i", "t", "l", "e">>, <<"T", "a", "g", "s">>, <<"C", "o", "n", "t", "e", "n", "t">>,
       <<"I", "s", " ", "C", "h", "e", "c", "k", " ", "l", "i", "s", "t">>, <<"S", "t", "a", "r", "t", " ", "D", "a", "t", "e">>, <<"D", "u", "e", " ", "D", "a", "t", "e">>, <<"R", "e", "m", "i", "n", "d", "e", "r">>, <<"R", "e", "p", "e", "a", "t">>,
       <<"P", "r", "i", "o", "r", "i", "t", "y">>, <<"S", "t", "a", "t", "u", "s">>, <<"C", "r", "e", "a", "t", "e", "d", " ", "T", "i", "m", "e">>, <<"C", "o", "m", "p", "l", "e", "t", "e", "d", " ", "T", "i", "m", "e">>, <<"O", "r", "d", "e", "r">>,
       <<"T", "i", "m", "e", "z", "o", "n", "e">>, <<"I", "s", " ", "A", "l", "l", " ", "D", "a", "y">>, <<"I", "s", " ", "F", "l", "o", "a", "t", "i", "n", "g">>, <<"C", "o", "l", "u", "m", "n", " ", "N", "a", "m", "e">>,
       <<"C", "o", "l", "u", "m", "n", " ", "O", "r", "d", "e", "r">>, <<"V", "i", "e", "w", " ", "M", "o", "d", "e">> >>

T1 == <<"2", "0", "2", "4", "-", "0", "3", "-", "0", "1", "T", "1", "2", ":", "0", "0", ":", "0", "0", ".", "0", "0", "0", "+", "0", "0", "0", "0">>
T2 == <<"2", "0", "2", "4", "-", "0", "3", "-", "0", "2", "T", "0", "9", ":", "0", "5", ":", "0", "0", ".", "0", "0", "0", "+", "0", "0", "0", "0">>

\* a full line: a task of the given folder, list and creation time
TaskRow(folder, list, created) ==
    Row(<<folder, list, <<"t">>, <<>>, <<>>, <<"0">>, <<>>, <<>>, <<>>, <<>>, <<"1">>, <<"0">>,
          created, <<>>, <<"0">>, <<"U", "T", "C">>, <<"0">>, <<"0">>, <<>>, <<"0">>, <<>>>>)

CandidateRows ==
    { Row(HeaderLabels),
      Row(<<<<"F", "o", "l", "d", "e", "r", " ", "N", "a", "m", "e">>>>),
      Row(<<<<"a">>>>),
      TaskRow(<<"a">>, <<"b">>, T1),
      TaskRow(<<"a">>, <<"b">>, T2),
      TaskRow(<<"a">>, <<>>, T1),
      TaskRow(<<>>, <<>>, T1),
      TaskRow(<<>>, <<"b">>, T2),
      TaskRow(<<"1", "0">>, <<>>, T1),
      TaskRow(<<"9">>, <<>>, T2),
      TaskRow(<<"c", "o", "n", "s", "t", "r", "u", "c", "t", "o", "r">>, <<>>, T1) }

RowSeqs == UNION {[1..n -> CandidateRows] : n \in 0..MaxRows}

NoRecord == [key \in {} |-> <<>>]
NoFrags == [encoded |-> FALSE]
NoOutput == [thrown |-> FALSE, text |-> <<>>]

----------------------------------------------------------------------------------------------------------------------------------------
(* the run: fs.readFile, its callback, parseJson, the callback of copy *)

Init ==
    /\ pc = "start"
    /\ fileExists \in BOOLEAN
    /\ extname \in {".csv", ".txt"}
    /\ fileRows \in IF fileExists THEN RowSeqs ELSE {<<>>}
    /\ err = FALSE
    /\ data = [defined |-> FALSE, rows |-> <<>>]
    /\ result = <<>>
    /\ dataSet = <<>>
    /\ sortedRows = <<>>
    /\ projects = <<>>
    /\ results = NoOutput
    /\ clipboard = <<>>
    /\ console = <<>>
    /\ trace = <<>>
    /\ firstResults = NoOutput
    /\ given = <<>>
    /\ item = NoRecord
    /\ frags = NoFrags

\* fs.readFile(file, "utf8", callback) completes (line 174): err is set and
\* data is undefined when the file cannot be read.
ReadFile ==
    /\ pc = "start"
    /\ pc' = "callback"
    /\ err' = ~fileExists
    /\ data' = [defined |-> fileExists, rows |-> fileRows]
    /\ trace' = Append(trace, "readFile")
    /\ UNCHANGED <<fileVars, parseVars, console, twiceVars, encVars>>

\* what lines 175 and 176 print: reportError only prints and returns
Reported ==
    (IF err THEN <<"path">> ELSE <<>>)
    \o (IF extname # ".csv" THEN <<"extension">> ELSE <<>>)

\* convertCsvToJson(data) of line 178 for data that was read: the promise
\* resolves with the rows.
CallbackConverts ==
    /\ pc = "callback"
    /\ data.defined
    /\ console' = console \o Reported
    /\ trace' = Append(trace, "convertCsvToJson")
    /\ result' = data.rows
    /\ pc' = "awaiting"
    /\ UNCHANGED <<fileVars, err, data, dataSet, sortedRows, projects, results, clipboard,
                   twiceVars, encVars>>

\* convertCsvToJson(undefined) of line 178, after a failed read: nothing
\* returns from the callback after reportError("path"), so the call is made
\* all the same. What the row source does with undefined is its own affair:
\* it throws, which rejects the promise of the async callback, or it
\* resolves with no rows.
CallbackConvertsUndefined ==
    /\ pc = "callback"
    /\ ~data.defined
    /\ console' = console \o Reported
    /\ trace' = Append(trace, "convertCsvToJson")
    /\ \/ pc' = "rejected" /\ result' = result
       \/ pc' = "awaiting" /\ result' = <<>>
    /\ UNCHANGED <<fileVars, err, data, dataSet, sortedRows, projects, results, clipboard,
                   twiceVars, encVars>>

\* what one call of parseJson does to the state: the caller's array is
\* spliced, the format error printed, and the text handed to copy unless the
\* reduce threw.
ParseJsonCall(p) ==
    /\ result' = p.array
    /\ console' = console \o (IF p.format THEN <<"format">> ELSE <<>>)
    /\ dataSet' = p.dataSet
    /\ sortedRows' = p.sorted
    /\ projects' = p.projects
    /\ results' = [thrown |-> p.thrown, text |-> IF p.thrown THEN <<>> ELSE p.results]
    /\ clipboard' = IF p.thrown THEN clipboard ELSE Append(clipboard, p.results)
    /\ trace' = trace \o <<"parseJson", "findIndex", "splice", "sort", "reduce">>
                      \o (IF p.thrown THEN <<>> ELSE <<"copy">>)

\* line 179 after the await: an array is truthy, so parseJson(result) runs,
\* to the call of copy or to the exception of the reduce.
Resume ==
    /\ pc = "awaiting"
    /\ \E p \in {parseJson(result)} :
         /\ ParseJsonCall(p)
         /\ pc' = IF p.thrown THEN "rejected" ELSE "copying"
    /\ UNCHANGED <<fileVars, err, data, twiceVars, encVars>>

\* the callback of copy (lines 167-171)
CopyCallback ==
    /\ pc = "copying"
    /\ pc' = "done"
    /\ console' = Append(console, "saved")
    /\ UNCHANGED <<fileVars, err, data, parseVars, trace, twiceVars, encVars>>

Next == ReadFile \/ CallbackConverts \/ CallbackConvertsUndefined \/ Resume \/ CopyCallback

Spec == Init /\ [][Next]_vars

----------------------------------------------------------------------------
(* parseJson called twice on one array *)

InitTwice ==
    /\ pc = "first"
    /\ fileExists = TRUE
    /\ extname = ".csv"
    /\ fileRows \in RowSeqs
    /\ err = FALSE
    /\ data = [defined |-> TRUE, rows |-> fileRows]
    /\ result = fileRows
    /\ dataSet = <<>>
    /\ sortedRows = <<>>
    /\ projects = <<>>
    /\ results = NoOutput
    /\ clipboard = <<>>
    /\ console = <<>>
    /\ trace = <<>>
    /\ firstResults = NoOutput
    /\ given = fileRows
    /\ item = NoRecord
    /\ frags = NoFrags

FirstCall ==
    /\ pc = "first"
    /\ \E p \in {parseJson(result)} :
         /\ ParseJsonCall(p)
         /\ firstResults' = [thrown |-> p.thrown, text |-> IF p.thrown THEN <<>> ELSE p.results]
    /\ pc' = "second"
    /\ UNCHANGED <<fileVars, err, data, given, encVars>>

SecondCall ==
    /\ pc = "second"
    /\ \E p \in {parseJson(result)} : ParseJsonCall(p)
    /\ pc' = "twice"
    /\ UNCHANGED <<fileVars, err, data, twiceVars, encVars>>

NextTwice == FirstCall \/ SecondCall

SpecTwice == InitTwice /\ [][NextTwice]_vars

----------------------------------------------------------------------------
(* the encoders applied to one record *)

\* a line of the table with the given tags, content, repeat, priority,
\* status and completedTime cells
EncCells(tg, nt, rp, pr, st, ct) ==
    <<<<"W", "o", "r", "k">>, <<"A", "d", "m", "i", "n">>, <<"P", "a", "y", " ", "r", "e", "n", "t">>, tg, nt, <<"0">>, <<>>, <<>>, <<>>, rp, pr, st,
      T1, ct, <<"0">>, <<"U", "T", "C">>, <<"0">>, <<"0">>, <<>>, <<"0">>, <<>>>>

EncTags == { <<>>, <<"b", "i", "l", "l", "s">> }
EncNotes ==
    { <<>>, <<"c", "a", "l", "l">>, <<"-", "c", "a", "l", "l">>, <<"▪", "c", "a", "l", "l">>, <<"-", "▪", "c", "a", "l", "l">>, <<"-", "-", "c", "a", "l", "l">>, <<"▪", "-", "c", "a", "l", "l">>,
      <<"-", "a", "\n", "▪", "b", "\n", "c", "-", "d">>, <<"a", "\n", "\n", "-", " ", "b">> }
EncRepeats == { <<>>, <<"F", "R", "E", "Q">> }
EncPriorities == { <<>>, <<"0">>, <<"1">>, <<"3">> }
EncStatuses == { <<>>, <<"0">>, <<"2">> }
EncCompleted == { <<>>, <<"s", "o", "o", "n">>, T2 }

\* the numbers of cells of the lines: a short line has the first keys only
EncLengths == {1, 2, 3, 4, 9, 10, 11, 21}

EncItems ==
    { Row(SubSeq(EncCells(tg, nt, rp, pr, st, ct), 1, n)) :
        tg \in EncTags, nt \in EncNotes, rp \in EncRepeats, pr \in EncPriorities,
        st \in EncStatuses, ct \in EncCompleted, n \in EncLengths }

\* every fragment the encoders and the comparator derive from a record
Encoded(it) ==
    [encoded |-> TRUE,
     done |-> tpDone(it), defer |-> tpDefer(it), due |-> tpDue(it),
     flagged |-> tpFlagged(it), note |-> tpNote(it), project |-> tpProject(it),
     repeat |-> tpRepeat(it), tags |-> tpTags(it), title |-> tpTitle(it),
     sortName |-> ProjectSortName(it)]

InitEnc ==
    /\ pc = "encode"
    /\ item \in EncItems
    /\ frags = NoFrags
    /\ fileExists = TRUE
    /\ extname = ".csv"
    /\ fileRows = <<>>
    /\ err = FALSE
    /\ data = [defined |-> FALSE, rows |-> <<>>]
    /\ result = <<>>
    /\ dataSet = <<>>
    /\ sortedRows = <<>>
    /\ projects = <<>>
    /\ results = NoOutput
    /\ clipboard = <<>>
    /\ console = <<>>
    /\ trace = <<>>
    /\ firstResults = NoOutput
    /\ given = <<>>

Encode ==
    /\ pc = "encode"
    /\ frags' = Encoded(item)
    /\ pc' = "encoded"
    /\ UNCHANGED <<fileVars, err, data, parseVars, console, trace, twiceVars, item>>

NextEnc == Encode

SpecEnc == InitEnc /\ [][NextEnc]_vars

----------------------------------------------------------------------------
(* properties of the run (Spec) *)

Printed(message) == \E i \in 1..Len(console) : console[i] = message
Started(operation) == \E i \in 1..Len(trace) : trace[i] = operation

\* C1: when reading the input file fails, the run stops after reporting the
\* path error: afterwards the row source is not called, no header is looked
\* for, no format error is reported and nothing is written to the clipboard.
C1_PathErrorStopsRun ==
    (err /\ Printed("path")) =>
        /\ ~Started("convertCsvToJson")
        /\ ~Started("findIndex")
        /\ ~Printed("format")
        /\ clipboard = <<>>

\* the rendered blocks of the records of a sequence, in order
Rendered(rows) == [i \in 1..Len(rows) |-> RenderTask(rows[i])]

\* the records of the sorted data set whose project string is the key
RecordsOf(key) == SelectSeq(sortedRows, LAMBDA r : tpProject(r) = key)

\* C2: grouping is a partition: for every data set the grouping pass
\* completes, the bucket keys are distinct, every record's project string is
\* the key of a bucket, and a bucket holds, after its header line, exactly
\* one rendered block for each record of its key, in order.
C2_GroupingIsPartition ==
    Started("reduce") =>
        /\ ~results.thrown
        /\ \A i, j \in 1..Len(projects) : projects[i].key = projects[j].key => i = j
        /\ \A i \in 1..Len(sortedRows) :
             \E j \in 1..Len(projects) : projects[j].key = tpProject(sortedRows[i])
        /\ \A j \in 1..Len(projects) :
             Tail(projects[j].value) = Rendered(RecordsOf(projects[j].key))

\* a row in which every one of the 21 fields has a value whose camel-case
\* transform is the name of the field
AllFieldsAreLabels(row) ==
    \A i \in 1..Len(headers) :
        headers[i] \in DOMAIN row /\ keyToCamelCase(row[headers[i]]) = headers[i]

\* C3: the data set is exactly the rows after the first row in which every
\* one of the 21 fields holds its own label; when there is no such row the
\* format error is reported and the data set is the whole row sequence.
C3_HeaderDetection ==
    Started("findIndex") =>
        LET rows == IF data.defined THEN data.rows ELSE <<>>
            labels == {i \in 1..Len(rows) : AllFieldsAreLabels(rows[i])} IN
        IF labels = {}
        THEN Printed("format") /\ dataSet = rows
        ELSE LET first == CHOOSE i \in labels : \A j \in labels : i <= j IN
             dataSet = SubSeq(rows, first + 1, Len(rows))

\* createdTime(r) <= createdTime(s), where both rows have one
CreatedInOrder(r, s) ==
    (createdTime \in DOMAIN r /\ createdTime \in DOMAIN s)
        => ~StrLt(s[createdTime], r[createdTime])

\* C6: after the sort, for any record r placed before a record s, either
\* project(r) < project(s), or the two are equal and createdTime(r) <=
\* createdTime(s), where project is the string tpProject gives.
C6_SortedByProjectAndCreation ==
    Started("sort") =>
        \A i, j \in 1..Len(sortedRows) :
            i < j =>
                \/ StrLt(tpProject(sortedRows[i]), tpProject(sortedRows[j]))
                \/ /\ tpProject(sortedRows[i]) = tpProject(sortedRows[j])
                   /\ CreatedInOrder(sortedRows[i], sortedRows[j])

\* a data set every row of which has all 21 keys
FullRows(rows) == \A i \in 1..Len(rows) : DOMAIN rows[i] = {headers[k] : k \in 1..Len(headers)}

\* C7: the buckets appear in the text (Object.values) in the order in which
\* their keys were first met in the pass, and that order is ascending
\* project-key order. Stated for data sets of full rows, whose sort key is
\* the project string.
C7_BucketOrder ==
    (Started("copy") /\ FullRows(sortedRows)) =>
        LET met == [i \in 1..Len(projects) |-> projects[i].key]
            shown == [i \in 1..Len(projects) |-> OwnKeysInOrder(projects)[i].key] IN
        /\ shown = met
        /\ \A i, j \in 1..Len(met) : i < j => StrLt(met[i], met[j])

----------------------------------------------------------------------------
(* properties of two calls of parseJson on one array (SpecTwice) *)

\* C8: two calls of parseJson in succession on the same row sequence give
\* the same text, and the row sequence is left as it was given.
C8_Idempotent ==
    (pc = "twice" /\ ~firstResults.thrown) =>
        /\ results = firstResults
        /\ result = given

----------------------------------------------------------------------------
(* properties of the encoders (SpecEnc) *)

\* the @tags fragment of a record that names no priority
TagsWithoutPriority(it) ==
    LET tagList == Trim(String(Get(it, tags))) IN
    IF tagList = <<>> THEN <<>> ELSE <<" ", "@", "t", "a", "g", "s", "(">> \o tagList \o <<")">>

\* C4: tpTags puts priority-N in the tag list exactly when tpFlagged emits
\* @flagged, that is only for a priority above 0; a record of priority "0"
\* and no tags has no @tags fragment.
C4_PriorityTagOnlyIfFlagged ==
    pc = "encoded" =>
        /\ (frags.tags # TagsWithoutPriority(item)) <=> (frags.flagged # <<>>)
        /\ (Get(item, priority) = <<"0">> /\ Get(item, tags) = <<>>) => frags.tags = <<>>

\* the completedTime cells that are timestamps, and the status cells that
\* are numerals other than zero
CompletedValid(it) == Get(it, completedTime) \in {T1, T2}
StatusNonZero(it) == Get(it, status) \in {<<"1">>, <<"2">>}

\* C5: tpDone emits @done(...) only for a completedTime that formats, never
\* for status 0, and always for a non-zero status whose completedTime
\* formats.
C5_DoneIffCompletedAndDated ==
    pc = "encoded" =>
        /\ Get(item, status) = <<"0">> => frags.done = <<>>
        /\ ~CompletedValid(item) => frags.done = <<>>
        /\ (StatusNonZero(item) /\ CompletedValid(item)) =>
               /\ Len(frags.done) > Len(<<" ", "@", "d", "o", "n", "e", "(", ")">>)
               /\ SubSeq(frags.done, 1, Len(<<" ", "@", "d", "o", "n", "e", "(">>)) = <<" ", "@", "d", "o", "n", "e", "(">>
               /\ frags.done[Len(frags.done)] = ")"

\* a completed record with a completion date has been encoded, and so has a
\* record of status 0 with a completion date
C5_Witness ==
    /\ pc = "encoded"
    /\ StatusNonZero(item) /\ CompletedValid(item)
    /\ frags.done = <<" ", "@", "d", "o", "n", "e", "(", "0", "3", "/", "0", "2", "/", "2", "0", "2", "4", " ", "9", ":", "0", "5", ":", "0", "0", " ", "A", "M", ")">>

\* the fields C9 names
OptionalFields == {title, tags, repeat, folderName, listName}

\* the record with an empty string for a key it lacks
WithEmpty(it, key) ==
    [k \in DOMAIN it \cup {key} |-> IF k \in DOMAIN it THEN it[k] ELSE <<>>]

\* C9: for a record that lacks one of title, tags, repeat, folderName and
\* listName, the title, @tags, @repeat-rule and project fragments and the
\* project name of the sort are those of the record with that field empty.
C9_MissingKeyAsEmpty ==
    pc = "encoded" =>
        \A key \in OptionalFields \ DOMAIN item :
            \E e \in {Encoded(WithEmpty(item, key))} :
                /\ frags.title = e.title
                /\ frags.tags = e.tags
                /\ frags.repeat = e.repeat
                /\ frags.project = e.project
                /\ frags.sortName = e.sortName

\* a line less its leading character when that is a marker
IsMarker(c) == c \in {"-", "▪"}
StartsWithMarker(line) == line # <<>> /\ IsMarker(Head(line))

\* C10: tpNote takes from each line of the note at most one leading
\* character, and only a '-' or a '▪'; no line that began with a marker
\* still begins with that marker; the lines are joined in order with
\* newlines, and an empty note gives the empty string.
C10_NoteStripsOneMarker ==
    pc = "encoded" =>
        LET note == Get(item, content)
            lines == IF Truthy(note) THEN Split(note, "\n") ELSE <<>>
            out == Split(frags.note, "\n") IN
        IF ~Truthy(note) THEN frags.note = <<>>
        ELSE /\ Len(out) = Len(lines)
             /\ \A i \in 1..Len(lines) :
                  /\ out[i] = lines[i] \/ (StartsWithMarker(lines[i]) /\ out[i] = Tail(lines[i]))
                  /\ StartsWithMarker(lines[i]) =>
                        (out[i] = <<>> \/ Head(out[i]) # Head(lines[i]))

\* what tpNote leaves of a line: a leading '-' goes, and then a leading '▪'
StartsWith(line, marks) == Len(line) >= Len(marks) /\ SubSeq(line, 1, Len(marks)) = marks
ExpectedLine(line) ==
    IF StartsWith(line, <<"-", "▪">>) THEN SubSeq(line, 3, Len(line))
    ELSE IF StartsWith(line, <<"-">>) \/ StartsWith(line, <<"▪">>) THEN Tail(line)
    ELSE line

\* C10, amended: tpNote takes from each line of the trimmed note one leading
\* '-' if there is one and then one leading '▪' if there is one (two
\* characters of a line that begins "-▪"; a second '-', or a '-' after a
\* '▪', stays), keeps every other character, and joins the lines in order
\* with newlines; an empty or missing note gives the empty string.
C10_NoteStripsDashThenBullet ==
    pc = "encoded" =>
        LET note == Get(item, content)
            lines == Split(Trim(String(note)), "\n") IN
        IF ~Truthy(note) THEN frags.note = <<>>
        ELSE frags.note = Join([i \in 1..Len(lines) |-> ExpectedLine(lines[i])], <<"\n">>)

\* a note whose line begins "-▪" has been encoded, and lost both characters
C10_Witness ==
    /\ pc = "encoded"
    /\ Get(item, content) = <<"-", "▪", "c", "a", "l", "l">>
    /\ frags.note = <<"c", "a", "l", "l">>

====
